---- MODULE Spec2Model ----
(***************************************************************************)
(* Model of the Homey web proxy: the cookie jar and HTTP forwarding of     *)
(* WebProxyApp.webRequest, the WebSocket registry of wsConnect / wsSend /  *)
(* wsClose / onUninit (src/app.js), and the API layer that wraps them      *)
(* (src/widgets/webframe/api.js).                                          *)
(*                                                                         *)
(* JavaScript strings are sequences of one-character strings, so that      *)
(* split, trim, toLowerCase, parseInt and startsWith are computed on the   *)
(* text as the code computes them.                                         *)
(***************************************************************************)
EXTENDS Integers, Sequences, FiniteSets, TLC

VARIABLES
  cookieJar,       \* this.cookieJar: hostname -> sequence of cookies
  requestCounter,  \* this.requestCounter
  pending,         \* per hostname, the webRequest calls suspended at `await axios(...)`
  now,             \* Date.now(), in milliseconds
  websockets,      \* this.websockets: wsId -> connection (NoWs when absent)
  conns,           \* the WebSocket objects created so far, by creation number
  running,         \* FALSE once onUninit has run
  last             \* the step just taken: the call and its result, or the event emitted

vars == <<cookieJar, requestCounter, pending, now,
          websockets, conns, running, last>>

httpVars == <<cookieJar, requestCounter, pending, now>>
wsVars == <<websockets, conns, running>>

-----------------------------------------------------------------------------
(* Bounds of the model *)

MaxRequests == 2     \* webRequest calls in one run
MaxSec == 1          \* the clock runs over the seconds 0..MaxSec
MaxSetCookie == 2    \* Set-Cookie headers in one response
MaxConns == 2        \* WebSocket objects created in one run
MaxSent == 1         \* frames handed to one connection's transport

-----------------------------------------------------------------------------
(* JavaScript values *)

\* null and undefined; no string is equal to either (strings hold single characters)
Null == <<"null">>
Undefined == <<"undefined">>

\* the empty string ''
EmptyStr == << >>

\* null where an object is expected
NullObject == [null |-> TRUE]

\* NaN; a number n is <<n>>, so that NaN compares unequal to every number
NaN == << >>

\* truthiness of a value that is a string, null or undefined
Truthy(v) == v # Null /\ v # Undefined /\ v # EmptyStr

\* String(v) for a string or undefined
ToStr(v) == IF v = Undefined THEN <<"u", "n", "d", "e", "f", "i", "n", "e", "d">> ELSE v

\* a relational comparison a < b of two numbers: false when either is NaN
NumLess(a, b) == a # NaN /\ b # NaN /\ a[1] < b[1]

RECURSIVE SplitFrom(_, _, _, _)
SplitFrom(s, sep, i, cur) ==
  IF i > Len(s) THEN <<cur>>
  ELSE IF s[i] = sep THEN <<cur>> \o SplitFrom(s, sep, i + 1, EmptyStr)
  ELSE SplitFrom(s, sep, i + 1, Append(cur, s[i]))

\* s.split(sep) for a one-character separator
split(s, sep) == SplitFrom(s, sep, 1, EmptyStr)

RECURSIVE trimStart(_)
trimStart(s) == IF s # EmptyStr /\ Head(s) = " " THEN trimStart(Tail(s)) ELSE s

RECURSIVE trimEnd(_)
trimEnd(s) ==
  IF s # EmptyStr /\ s[Len(s)] = " " THEN trimEnd(SubSeq(s, 1, Len(s) - 1)) ELSE s

\* s.trim()
trim(s) == trimEnd(trimStart(s))

UpperChars == <<"A", "B", "C", "D", "E", "F", "G", "H", "I", "J", "K", "L", "M",
                "N", "O", "P", "Q", "R", "S", "T", "U", "V", "W", "X", "Y", "Z">>
LowerChars == <<"a", "b", "c", "d", "e", "f", "g", "h", "i", "j", "k", "l", "m",
                "n", "o", "p", "q", "r", "s", "t", "u", "v", "w", "x", "y", "z">>

\* s.toLowerCase()
toLowerCase(s) ==
  [i \in 1..Len(s) |->
     IF \E k \in 1..Len(UpperChars) : UpperChars[k] = s[i]
     THEN LowerChars[CHOOSE k \in 1..Len(UpperChars) : UpperChars[k] = s[i]]
     ELSE s[i]]

DigitChars == <<"0", "1", "2", "3", "4", "5", "6", "7", "8", "9">>
IsDigit(c) == \E k \in 1..Len(DigitChars) : DigitChars[k] = c
DigitVal(c) == (CHOOSE k \in 1..Len(DigitChars) : DigitChars[k] = c) - 1

RECURSIVE ParseDigits(_, _)
ParseDigits(s, acc) ==
  IF s = EmptyStr \/ ~IsDigit(Head(s)) THEN acc
  ELSE ParseDigits(Tail(s), acc * 10 + DigitVal(Head(s)))

\* parseInt(v, 10): leading blanks, an optional sign, then the longest run of
\* digits; NaN when there is no digit (and for undefined)
parseInt(v) ==
  LET t == trimStart(ToStr(v))
      signed == t # EmptyStr /\ Head(t) \in {"-", "+"}
      body == IF signed THEN Tail(t) ELSE t
  IN IF body = EmptyStr \/ ~IsDigit(Head(body)) THEN NaN
     ELSE <<(IF signed /\ Head(t) = "-" THEN -1 ELSE 1) * ParseDigits(body, 0)>>

RECURSIVE NatToStr(_)
NatToStr(n) ==
  IF n < 10 THEN <<DigitChars[n + 1]>>
  ELSE NatToStr(n \div 10) \o <<DigitChars[(n % 10) + 1]>>

\* s.startsWith(p); p is converted to a string first, as JavaScript does
startsWith(s, p) ==
  LET q == ToStr(p)
  IN Len(q) <= Len(s) /\ SubSeq(s, 1, Len(q)) = q

-----------------------------------------------------------------------------
(* Dates *)

\* milliseconds in a second: `maxAge * 1000`
MsPerSec == 1000

\* new Date(ms).toUTCString(): the date text keeps the whole second and drops
\* the milliseconds. The text is written "@<seconds since the epoch>" here in
\* place of "Thu, 01 Jan 1970 00:00:01 GMT".
toUTCString(ms) ==
  LET sec == ms \div MsPerSec
  IN <<"@">> \o (IF sec < 0 THEN <<"-">> \o NatToStr(-sec) ELSE NatToStr(sec))

RECURSIVE AllDigits(_)
AllDigits(s) == s = EmptyStr \/ (IsDigit(Head(s)) /\ AllDigits(Tail(s)))

\* new Date(str).getTime(): the instant of a date text, NaN (Invalid Date) for
\* any other text
DateParse(str) ==
  LET neg == Len(str) >= 2 /\ str[2] = "-"
      digits == IF neg THEN SubSeq(str, 3, Len(str)) ELSE SubSeq(str, 2, Len(str))
  IN IF Len(str) >= 2 /\ str[1] = "@" /\ digits # EmptyStr /\ AllDigits(digits)
     THEN <<(IF neg THEN -1 ELSE 1) * ParseDigits(digits, 0) * MsPerSec>>
     ELSE NaN

-----------------------------------------------------------------------------
(* Cookies: _parseCookie *)

AttrPath == <<"p", "a", "t", "h">>
AttrExpires == <<"e", "x", "p", "i", "r", "e", "s">>
AttrMaxAge == <<"m", "a", "x", "-", "a", "g", "e">>
AttrHttpOnly == <<"h", "t", "t", "p", "o", "n", "l", "y">>
AttrSecure == <<"s", "e", "c", "u", "r", "e">>

\* the second element of a destructured array: undefined when there is none
Second(parts) == IF Len(parts) >= 2 THEN parts[2] ELSE Undefined

\* the body of attributes.forEach: one attribute applied to the cookie at time t
parseAttribute(cookie, attr, t) ==
  LET raw == split(attr, "=")
      kv == [i \in 1..Len(raw) |-> trim(raw[i])]
      key == kv[1]
      val == Second(kv)
      lowerKey == toLowerCase(key)
      maxAge == parseInt(val)
  IN IF lowerKey = AttrPath THEN [cookie EXCEPT !.path = val]
     ELSE IF lowerKey = AttrExpires THEN [cookie EXCEPT !.expires = val]
     ELSE IF lowerKey = AttrMaxAge THEN
       IF maxAge # NaN
       THEN [cookie EXCEPT !.expires = toUTCString(t + maxAge[1] * MsPerSec)]
       ELSE cookie
     ELSE IF lowerKey = AttrHttpOnly THEN [cookie EXCEPT !.httpOnly = TRUE]
     ELSE IF lowerKey = AttrSecure THEN [cookie EXCEPT !.secure = TRUE]
     ELSE cookie

RECURSIVE parseAttributes(_, _, _)
parseAttributes(cookie, attributes, t) ==
  IF attributes = << >> THEN cookie
  ELSE parseAttributes(parseAttribute(cookie, Head(attributes), t), Tail(attributes), t)

\* _parseCookie(cookieStr) called at time t. For a string it never throws, so
\* it never returns null.
_parseCookie(cookieStr, t) ==
  LET rawParts == split(cookieStr, ";")
      parts == [i \in 1..Len(rawParts) |-> trim(rawParts[i])]
      nameValue == Head(parts)
      attributes == Tail(parts)
      nv == split(nameValue, "=")
      name == nv[1]
      value == Second(nv)
      cookie == [name |-> trim(name),
                 value |-> IF Truthy(value) THEN value ELSE EmptyStr,
                 path |-> <<"/">>,
                 expires |-> Null,
                 httpOnly |-> FALSE,
                 secure |-> FALSE]
  IN parseAttributes(cookie, attributes, t)

-----------------------------------------------------------------------------
(* Inputs of the HTTP side *)

Domains == {"d1", "d2"}

PathRoot == <<"/">>
PathAB == <<"/", "a", "/", "b">>
Paths == {PathRoot, PathAB}

\* what a caller passes as url: nothing, '', text that is no URL, or an
\* absolute URL, given by the hostname and pathname `new URL(url)` finds in it
BadUrls == {[kind |-> "absent"], [kind |-> "empty"], [kind |-> "invalid"]}
GoodUrls == {[kind |-> "valid", hostname |-> d, pathname |-> p] : d \in Domains, p \in Paths}
Urls == BadUrls \cup GoodUrls

\* s=x; Path=/; Max-Age=1
HMaxAge == <<"s", "=", "x", ";", " ", "P", "a", "t", "h", "=", "/", ";", " ",
             "M", "a", "x", "-", "A", "g", "e", "=", "1">>
\* s=y; Path=/a; Max-Age=0
HMaxAgeZero == <<"s", "=", "y", ";", " ", "P", "a", "t", "h", "=", "/", "a", ";", " ",
                 "M", "a", "x", "-", "A", "g", "e", "=", "0">>
\* t=2; Path; Expires=<the date of second 1>
HPathNoValue == <<"t", "=", "2", ";", " ", "P", "a", "t", "h", ";", " ",
                  "E", "x", "p", "i", "r", "e", "s", "=", "@", "1">>

SetCookiePool == {HMaxAge, HMaxAgeZero, HPathNoValue}

\* s=x; Max-Age=1; Expires=<the date of second 9>
HMaxAgeThenExpires == <<"s", "=", "x", ";", " ", "M", "a", "x", "-", "A", "g", "e", "=", "1",
                        ";", " ", "E", "x", "p", "i", "r", "e", "s", "=", "@", "9">>
\* s=x; Expires=<the date of second 9>; Max-Age=1
HExpiresThenMaxAge == <<"s", "=", "x", ";", " ", "E", "x", "p", "i", "r", "e", "s", "=", "@", "9",
                        ";", " ", "M", "a", "x", "-", "A", "g", "e", "=", "1">>
\* flag; Path=/   (a first segment without '=')
HNoEquals == <<"f", "l", "a", "g", ";", " ", "P", "a", "t", "h", "=", "/">>
\* =v   (a first segment with an empty name)
HEmptyName == <<"=", "v">>
\* u=1
HPlain == <<"u", "=", "1">>

\* headers with both expiry attributes, and headers whose first segment is no
\* name=value pair
ParsePool == {HMaxAgeThenExpires, HExpiresThenMaxAge, HNoEquals, HEmptyName, HPlain}

AllHeaders == SetCookiePool \cup ParsePool

RECURSIVE SeqsUpTo(_, _)
SeqsUpTo(S, n) ==
  IF n = 0 THEN {<< >>}
  ELSE LET shorter == SeqsUpTo(S, n - 1)
       IN shorter \cup {Append(q, x) : q \in shorter, x \in S}

\* response.headers['set-cookie'] of a response
SetCookieLists == SeqsUpTo(SetCookiePool, MaxSetCookie)
ParseLists == SeqsUpTo(ParsePool, MaxSetCookie)

Statuses == {200, 404}

\* the instants the clock takes: around each whole second
Instants == {sec * MsPerSec + off : sec \in 0..MaxSec, off \in {0, 1, 500}}

-----------------------------------------------------------------------------
(* Cookies: the jar *)

\* _parseCookie of every header of the pools at every instant, computed once
parsedCookies ==
  [cookieStr \in AllHeaders |-> [t \in Instants |-> _parseCookie(cookieStr, t)]]

\* this._parseCookie(cookieStr) called at time t
parseCookieAt(cookieStr, t) == parsedCookies[cookieStr][t]

\* currentCookies.findIndex(c => c.name === name): 0 stands for -1
findIndex(cookies, name) ==
  IF \E i \in 1..Len(cookies) : cookies[i].name = name
  THEN CHOOSE i \in 1..Len(cookies) :
         /\ cookies[i].name = name
         /\ \A j \in 1..(i - 1) : cookies[j].name # name
  ELSE 0

\* currentCookies.splice(index, 1)
splice(cookies, index) ==
  SubSeq(cookies, 1, index - 1) \o SubSeq(cookies, index + 1, Len(cookies))

\* the recording without lines 85-88: the cookie of the same name stays
storeCookie_noReplace(currentCookies, cookieStr, t) ==
  LET parsed == parseCookieAt(cookieStr, t)
  IN IF parsed = NullObject THEN currentCookies ELSE Append(currentCookies, parsed)

\* the body of setCookieHeaders.forEach: one header recorded at time t
storeCookie(currentCookies, cookieStr, t) ==
  LET parsed == parseCookieAt(cookieStr, t)
      index == findIndex(currentCookies, parsed.name)
  IN IF parsed = NullObject THEN currentCookies
     ELSE IF index # 0 THEN Append(splice(currentCookies, index), parsed)
     ELSE Append(currentCookies, parsed)

RECURSIVE storeCookies(_, _, _)
storeCookies(currentCookies, setCookieHeaders, t) ==
  IF setCookieHeaders = << >> THEN currentCookies
  ELSE storeCookies(storeCookie(currentCookies, Head(setCookieHeaders), t),
                    Tail(setCookieHeaders), t)

\* the recording with the cookies of the hostname read before the await, for a
\* call dispatched while the hostname had no entry: what the other responses
\* stored meanwhile is overwritten
recordSetCookie_staleJar(jar, domain, setCookieHeaders, t) ==
  IF Len(setCookieHeaders) > 0
  THEN [jar EXCEPT ![domain] = storeCookies(<< >>, setCookieHeaders, t)]
  ELSE jar

\* the jar after a response with these Set-Cookie headers for `domain`,
\* processed at time t; a response without the header has none (the empty
\* sequence stands for undefined too: both fail the test of line 76)
recordSetCookie(jar, domain, setCookieHeaders, t) ==
  IF Len(setCookieHeaders) > 0
  THEN [jar EXCEPT ![domain] = storeCookies(jar[domain], setCookieHeaders, t)]
  ELSE jar

\* the filter of storedCookies.filter at time t for a request path
isValidCookie(cookie, pathname, t) ==
  IF Truthy(cookie.expires) /\ NumLess(DateParse(cookie.expires), <<t>>) THEN FALSE
  ELSE IF Truthy(cookie.path) /\ ~startsWith(pathname, cookie.path) THEN FALSE
  ELSE TRUE

validCookiesOf(storedCookies, pathname, t) ==
  SelectSeq(storedCookies, LAMBDA c : isValidCookie(c, pathname, t))

RECURSIVE joinCookies(_)
joinCookies(cookies) ==
  IF cookies = << >> THEN EmptyStr
  ELSE LET c == Head(cookies)
           pair == c.name \o <<"=">> \o c.value
       IN IF Len(cookies) = 1 THEN pair
          ELSE pair \o <<";", " ">> \o joinCookies(Tail(cookies))

\* headers['cookie'] of the dispatched request: undefined when no cookie is valid
cookieHeaderOf(validCookies) ==
  IF Len(validCookies) > 0 THEN joinCookies(validCookies) ELSE Undefined

-----------------------------------------------------------------------------
(* The API layer: src/widgets/webframe/api.js *)

\* an outcome of a call is a returned value or a thrown error
Returned(v) == [threw |-> FALSE, value |-> v]
Threw(message) == [threw |-> TRUE, message |-> message]

\* api.js webRequest without its try/catch: the throw of the app reaches the caller
apiWebRequest_noCatch(outcome) == outcome

\* api.js webRequest: the app's result, or on a throw a 500 result
apiWebRequest(outcome) ==
  IF outcome.threw
  THEN Returned([success |-> FALSE, status |-> 500, error |-> outcome.message])
  ELSE outcome

\* api.js wsConnect
apiWsConnect(outcome) ==
  IF outcome.threw
  THEN Returned([success |-> FALSE, error |-> outcome.message])
  ELSE outcome

\* api.js wsSend without its try/catch: the throw of the app reaches the caller
apiWsSend_noCatch(outcome) == outcome

\* api.js wsSend
apiWsSend(outcome) ==
  IF outcome.threw
  THEN Returned([success |-> FALSE, error |-> outcome.message])
  ELSE outcome

\* api.js wsClose
apiWsClose(outcome) ==
  IF outcome.threw
  THEN Returned([success |-> FALSE, error |-> outcome.message])
  ELSE outcome

-----------------------------------------------------------------------------
(* webRequest of src/app.js, called through api.js *)

\* what axios(config) does: resolve with a response, or reject with an error
\* that carries no response (validateStatus is always true, so a response of
\* any status resolves)
AxiosResolve == {[resolved |-> TRUE, status |-> st] : st \in Statuses}
AxiosReject == {[resolved |-> FALSE, hasResponse |-> FALSE, status |-> 0]}

\* the call that returns now was in flight together with another call to the
\* same hostname: another one is still awaiting, or the step before completed
\* one that was awaiting together with this one
Overlapped(hostname) ==
  \/ pending[hostname] > 1
  \/ /\ last.op = "webRequest" /\ last.phase = "return" /\ last.axiosCalled
     /\ last.hostname = hostname

\* The call up to `await axios(...)`: the counter, new URL(url), the Cookie
\* header. With a url that new URL rejects the call throws at once, and api.js
\* turns the throw into a result.
webRequestCall(url) ==
  /\ running
  /\ requestCounter < MaxRequests
  /\ requestCounter' = requestCounter + 1
  /\ IF url.kind # "valid"
     THEN /\ pending' = pending
          /\ last' = [op |-> "webRequest", phase |-> "return", urlKind |-> url.kind,
                      axiosCalled |-> FALSE,
                      outcome |-> apiWebRequest(Threw("Invalid URL"))]
     ELSE LET storedCookies == cookieJar[url.hostname]
              validCookies == validCookiesOf(storedCookies, url.pathname, now)
          IN /\ pending' = [pending EXCEPT ![url.hostname] = @ + 1]
             /\ last' = [op |-> "webRequest", phase |-> "dispatch", url |-> url,
                         validCookies |-> validCookies,
                         cookieHeader |-> cookieHeaderOf(validCookies)]
  /\ UNCHANGED <<cookieJar, now, wsVars>>

\* axios resolves (every HTTP status resolves: validateStatus is always true):
\* the Set-Cookie headers are recorded and the result returned
webRequestResponse(hostname, status, setCookieHeaders) ==
  /\ pending[hostname] > 0
  /\ pending' = [pending EXCEPT ![hostname] = @ - 1]
  /\ cookieJar' = recordSetCookie(cookieJar, hostname, setCookieHeaders, now)
  /\ last' = [op |-> "webRequest", phase |-> "return", urlKind |-> "valid",
              hostname |-> hostname,
              axiosCalled |-> TRUE,
              overlapped |-> Overlapped(hostname),
              setCookie |-> setCookieHeaders,
              outcome |-> apiWebRequest(Returned([success |-> TRUE, status |-> status]))]
  /\ UNCHANGED <<requestCounter, now, wsVars>>

\* axios rejects (DNS failure, refused connection, timeout): the catch block
\* rethrows, api.js returns a 500 result
webRequestFailure(hostname) ==
  /\ pending[hostname] > 0
  /\ pending' = [pending EXCEPT ![hostname] = @ - 1]
  /\ \E error \in AxiosReject :
       last' = [op |-> "webRequest", phase |-> "return", urlKind |-> "valid",
                hostname |-> hostname,
                axiosCalled |-> TRUE,
                overlapped |-> Overlapped(hostname),
                error |-> error,
                outcome |-> apiWebRequest(Threw("Network Error"))]
  /\ UNCHANGED <<cookieJar, requestCounter, now, wsVars>>

\* time passes: the clock reaches the next instant
Tick(t) ==
  /\ t > now
  /\ \A u \in Instants : u > now => t <= u
  /\ now' = t
  /\ last' = [op |-> "tick"]
  /\ UNCHANGED <<cookieJar, requestCounter, pending, wsVars>>

-----------------------------------------------------------------------------
(* webRequest of src/unnamed/part_000: the proxy without jar and sockets *)

\* the status of the catch block: error.response ? error.response.status : 500
part000_errorStatus(error) == IF error.hasResponse THEN error.status ELSE 500

\* the whole call; with a url that is no URL axios rejects
part000_webRequest(url, axios) ==
  /\ running
  /\ url.kind \in {"absent", "empty"} => axios = CHOOSE a \in AxiosReject : TRUE
  /\ url.kind = "invalid" => ~axios.resolved
  /\ last' = [op |-> "part000_webRequest", phase |-> "return", urlKind |-> url.kind,
              axiosCalled |-> url.kind \notin {"absent", "empty"},
              outcome |->
                IF url.kind \in {"absent", "empty"}
                THEN Returned([success |-> FALSE, status |-> 400])
                ELSE IF axios.resolved
                THEN Returned([success |-> TRUE, status |-> axios.status])
                ELSE Returned([success |-> FALSE, status |-> part000_errorStatus(axios)])]
  /\ UNCHANGED <<httpVars, wsVars>>

-----------------------------------------------------------------------------
(* The WebSocket registry: wsConnect, wsSend, wsClose, onUninit of src/app.js *)

\* this.websockets.get(wsId) of an id that is not registered
NoWs == 0

WsIds == {"a", "b"}

\* the url given to wsConnect: one `new WebSocket(url)` accepts, one it rejects
WsUrls == {"valid", "invalid"}

\* the data given to wsSend: a base64 string, or nothing
SendData == {"base64", "undefined"}

\* ws.readyState
ReadyStates == {"CONNECTING", "OPEN", "CLOSING", "CLOSED"}

\* new WebSocket(url): the connection as the constructor leaves it. wsId is
\* the id its event handlers close over; established tells that the handshake
\* has completed; closeCalls and sent count the calls of ws.close() and
\* ws.send() on it.
newWebSocket(wsId) ==
  [wsId |-> wsId, readyState |-> "CONNECTING", established |-> FALSE,
   closeCalls |-> 0, sent |-> 0]

\* ws.close(): a closed connection stays closed, any other starts closing
\* (while connecting, the handshake is aborted)
closeWs(ws) ==
  [ws EXCEPT !.closeCalls = @ + 1,
             !.readyState = IF @ = "CLOSED" THEN "CLOSED" ELSE "CLOSING"]

\* this.websockets.set(wsId, ws)
mapSet(map, wsId, c) == [map EXCEPT ![wsId] = c]

\* this.websockets.delete(wsId)
mapDelete(map, wsId) == [map EXCEPT ![wsId] = NoWs]

\* wsConnect without the test of line 170: the id is registered again
wsConnect_noDuplicateCheck(url, wsId) ==
  /\ running
  /\ url = "valid"
  /\ Len(conns) < MaxConns
  /\ conns' = Append(conns, newWebSocket(wsId))
  /\ websockets' = mapSet(websockets, wsId, Len(conns) + 1)
  /\ last' = [op |-> "wsConnect", wsId |-> wsId, url |-> url,
              outcome |-> apiWsConnect(Returned([success |-> TRUE, wsId |-> wsId]))]
  /\ UNCHANGED <<httpVars, running>>

\* wsConnect without the set of line 224: the connection is created and its
\* handlers attached, the entry is left for later
wsConnect_lateRegister(url, wsId) ==
  /\ running
  /\ IF websockets[wsId] # NoWs
     THEN /\ last' = [op |-> "wsConnect", wsId |-> wsId, url |-> url,
                      outcome |-> apiWsConnect(Threw("WebSocket ID already in use"))]
          /\ UNCHANGED conns
     ELSE IF url = "invalid"
     THEN /\ last' = [op |-> "wsConnect", wsId |-> wsId, url |-> url,
                      outcome |-> apiWsConnect(Threw("Invalid URL"))]
          /\ UNCHANGED conns
     ELSE /\ Len(conns) < MaxConns
          /\ conns' = Append(conns, newWebSocket(wsId))
          /\ last' = [op |-> "wsConnect", wsId |-> wsId, url |-> url,
                      outcome |-> apiWsConnect(Returned([success |-> TRUE, wsId |-> wsId]))]
  /\ UNCHANGED <<httpVars, websockets, running>>

\* wsConnect(url, wsId) through api.js
wsConnect(url, wsId) ==
  /\ running
  /\ IF websockets[wsId] # NoWs
     THEN /\ last' = [op |-> "wsConnect", wsId |-> wsId, url |-> url,
                      outcome |-> apiWsConnect(Threw("WebSocket ID already in use"))]
          /\ UNCHANGED <<websockets, conns>>
     ELSE IF url = "invalid"
     THEN /\ last' = [op |-> "wsConnect", wsId |-> wsId, url |-> url,
                      outcome |-> apiWsConnect(Threw("Invalid URL"))]
          /\ UNCHANGED <<websockets, conns>>
     ELSE /\ Len(conns) < MaxConns
          /\ conns' = Append(conns, newWebSocket(wsId))
          /\ websockets' = mapSet(websockets, wsId, Len(conns) + 1)
          /\ last' = [op |-> "wsConnect", wsId |-> wsId, url |-> url,
                      outcome |-> apiWsConnect(Returned([success |-> TRUE, wsId |-> wsId]))]
  /\ UNCHANGED <<httpVars, running>>

\* wsSend without the readyState test of line 243
wsSendError_noStateCheck(ws, data) ==
  IF ws = NoWs THEN "WebSocket not found"
  ELSE IF data = "undefined" THEN "The first argument must be of type string"
  ELSE ""

\* the checks of wsSend before anything is handed to the transport: the error
\* thrown, or "" when the send goes ahead
wsSendError(ws, data) ==
  IF ws = NoWs THEN "WebSocket not found"
  ELSE IF conns[ws].readyState # "OPEN" THEN "WebSocket is not open"
  ELSE IF data = "undefined" THEN "The first argument must be of type string"
  ELSE ""

\* wsSend(wsId, data) through api.js
wsSend(wsId, data) ==
  /\ running
  /\ LET ws == websockets[wsId]
         error == wsSendError(ws, data)
     IN IF error # ""
        THEN /\ last' = [op |-> "wsSend", wsId |-> wsId, data |-> data,
                         outcome |-> apiWsSend(Threw(error))]
             /\ UNCHANGED conns
        ELSE /\ conns[ws].sent < MaxSent
             /\ conns' = [conns EXCEPT ![ws].sent = @ + 1]
             /\ last' = [op |-> "wsSend", wsId |-> wsId, data |-> data,
                         outcome |-> apiWsSend(Returned([success |-> TRUE]))]
  /\ UNCHANGED <<httpVars, websockets, running>>

\* wsClose without the delete of line 271: the entry waits for the close event
wsClose_noDelete(wsId) ==
  /\ running
  /\ LET ws == websockets[wsId]
     IN IF ws = NoWs
        THEN UNCHANGED conns
        ELSE conns' = [conns EXCEPT ![ws] = closeWs(@)]
  /\ last' = [op |-> "wsClose", wsId |-> wsId,
              outcome |-> apiWsClose(Returned([success |-> TRUE]))]
  /\ UNCHANGED <<httpVars, websockets, running>>

\* wsClose(wsId) through api.js
wsClose(wsId) ==
  /\ running
  /\ LET ws == websockets[wsId]
     IN IF ws = NoWs
        THEN UNCHANGED <<websockets, conns>>
        ELSE /\ conns' = [conns EXCEPT ![ws] = closeWs(@)]
             /\ websockets' = mapDelete(websockets, wsId)
  /\ last' = [op |-> "wsClose", wsId |-> wsId,
              outcome |-> apiWsClose(Returned([success |-> TRUE]))]
  /\ UNCHANGED <<httpVars, running>>

\* the connections of this.websockets.entries()
Registered == {c \in DOMAIN conns : \E i \in WsIds : websockets[i] = c}

\* ws.close() that raises an error: the call is made, the connection stays as
\* it is
closeWsThrows(ws) == [ws EXCEPT !.closeCalls = @ + 1]

\* the loop of onUninit over the entries in insertion order (the order of
\* creation), without the try/catch of lines 282-286: the first close() that
\* raises ends the loop. The result is the connections and whether the loop
\* ran to its end.
RECURSIVE closeAll_noCatch(_, _, _)
closeAll_noCatch(cs, c, throwing) ==
  IF c > Len(cs) THEN [conns |-> cs, done |-> TRUE]
  ELSE IF c \notin Registered THEN closeAll_noCatch(cs, c + 1, throwing)
  ELSE IF c \in throwing THEN [conns |-> [cs EXCEPT ![c] = closeWsThrows(@)], done |-> FALSE]
  ELSE closeAll_noCatch([cs EXCEPT ![c] = closeWs(@)], c + 1, throwing)

\* the loop of onUninit: close() is called on every entry, an error of one
\* call is logged and the loop goes on
RECURSIVE closeAll(_, _, _)
closeAll(cs, c, throwing) ==
  IF c > Len(cs) THEN [conns |-> cs, done |-> TRUE]
  ELSE IF c \notin Registered THEN closeAll(cs, c + 1, throwing)
  ELSE IF c \in throwing THEN closeAll([cs EXCEPT ![c] = closeWsThrows(@)], c + 1, throwing)
  ELSE closeAll([cs EXCEPT ![c] = closeWs(@)], c + 1, throwing)

\* onUninit: close every registered connection, then clear the registry;
\* `throwing` are the connections whose close() raises an error
onUninit(throwing) ==
  /\ running
  /\ running' = FALSE
  /\ throwing \subseteq Registered
  /\ LET loop == closeAll(conns, 1, throwing)
     IN /\ conns' = loop.conns
        /\ websockets' = IF loop.done THEN [i \in WsIds |-> NoWs] ELSE websockets
  /\ last' = [op |-> "onUninit", throwing |-> throwing]
  /\ UNCHANGED httpVars

\* this.homey.api.realtime(`ws:${wsId}:${event}`, ...)
realtime(wsId, event) == [topic |-> wsId, event |-> event]

\* a message handler that emits only for the registered connection
messageHandler_registeredOnly(c) ==
  IF websockets[conns[c].wsId] = c THEN <<realtime(conns[c].wsId, "message")>> ELSE << >>

\* what the handlers registered for connection c emit when they run: each
\* calls realtime once, on the topic of the id it closes over
openHandler(c) == <<realtime(conns[c].wsId, "open")>>
messageHandler(c) == <<realtime(conns[c].wsId, "message")>>
errorHandler(c) == <<realtime(conns[c].wsId, "error")>>
closeHandler(c) == <<realtime(conns[c].wsId, "close")>>

\* the step in which the transport of connection c produced `transport` and the
\* handler emitted `emits`; topic and event are those of the first emission
Emitted(c, transport, emits) ==
  [op |-> "event", conn |-> c, transport |-> transport, emits |-> emits,
   topic |-> IF emits = << >> THEN "" ELSE emits[1].topic,
   event |-> IF emits = << >> THEN "" ELSE emits[1].event]

\* the transport establishes connection c: ws.on('open')
onOpen(c) ==
  /\ conns[c].readyState = "CONNECTING"
  /\ conns' = [conns EXCEPT ![c].readyState = "OPEN", ![c].established = TRUE]
  /\ last' = Emitted(c, "open", openHandler(c))
  /\ UNCHANGED <<httpVars, websockets, running>>

\* a frame arrives on connection c, which is open or was open and is closing:
\* ws.on('message')
onMessage(c) ==
  /\ conns[c].established
  /\ conns[c].readyState \in {"OPEN", "CLOSING"}
  /\ last' = Emitted(c, "message", messageHandler(c))
  /\ UNCHANGED <<httpVars, wsVars>>

\* the transport reports an error on connection c: ws.on('error')
onError(c) ==
  /\ conns[c].readyState # "CLOSED"
  /\ last' = Emitted(c, "error", errorHandler(c))
  /\ UNCHANGED <<httpVars, wsVars>>

\* the peer starts the closing handshake on connection c: no handler runs
peerClosing(c) ==
  /\ conns[c].readyState = "OPEN"
  /\ conns' = [conns EXCEPT ![c].readyState = "CLOSING"]
  /\ last' = [op |-> "peerClosing", conn |-> c]
  /\ UNCHANGED <<httpVars, websockets, running>>

\* connection c is closed: ws.on('close'), which deletes the id it closes over
onClose(c) ==
  /\ conns[c].readyState # "CLOSED"
  /\ conns' = [conns EXCEPT ![c].readyState = "CLOSED"]
  /\ websockets' = mapDelete(websockets, conns[c].wsId)
  /\ last' = Emitted(c, "close", closeHandler(c))
  /\ UNCHANGED <<httpVars, running>>

-----------------------------------------------------------------------------
(* Specification *)

Init ==
  /\ cookieJar = [d \in Domains |-> << >>]
  /\ requestCounter = 0
  /\ pending = [d \in Domains |-> 0]
  /\ now = 0
  /\ websockets = [i \in WsIds |-> NoWs]
  /\ conns = << >>
  /\ running = TRUE
  /\ last = [op |-> "onInit"]

\* the registry: the calls of the API and the events of the transport
NextWs ==
  \/ \E url \in WsUrls, i \in WsIds : wsConnect(url, i)
  \/ \E i \in WsIds, d \in SendData : wsSend(i, d)
  \/ \E i \in WsIds : wsClose(i)
  \/ onUninit({})
  \/ \E c \in DOMAIN conns : onOpen(c)
  \/ \E c \in DOMAIN conns : onMessage(c)
  \/ \E c \in DOMAIN conns : onError(c)
  \/ \E c \in DOMAIN conns : peerClosing(c)
  \/ \E c \in DOMAIN conns : onClose(c)

SpecWs == Init /\ [][NextWs]_vars

\* the cookie jar: requests to well-formed urls, their responses, and the clock
NextJar ==
  \/ \E url \in GoodUrls : webRequestCall(url)
  \/ \E d \in Domains, hs \in SetCookieLists : webRequestResponse(d, 200, hs)
  \/ \E d \in Domains : webRequestFailure(d)
  \/ \E t \in Instants : Tick(t)

SpecJar == Init /\ [][NextJar]_vars

\* the API surface: every call with its failure paths; one socket id, responses
\* without cookies
NextApi ==
  \/ \E url \in WsUrls : wsConnect(url, "a")
  \/ \E d \in SendData : wsSend("a", d)
  \/ wsClose("a")
  \/ \E c \in DOMAIN conns : onOpen(c)
  \/ \E c \in DOMAIN conns : onClose(c)
  \/ \E url \in Urls : webRequestCall(url)
  \/ \E d \in Domains, st \in Statuses : webRequestResponse(d, st, << >>)
  \/ \E d \in Domains : webRequestFailure(d)
  \/ \E url \in Urls, ax \in AxiosResolve \cup AxiosReject : part000_webRequest(url, ax)

SpecApi == Init /\ [][NextApi]_vars

\* teardown: connections are opened and closed, then onUninit runs, and
\* close() may raise an error on any of the registered connections
NextTeardown ==
  \/ \E i \in WsIds : wsConnect("valid", i)
  \/ \E i \in WsIds : wsClose(i)
  \/ \E c \in DOMAIN conns : onOpen(c)
  \/ \E c \in DOMAIN conns : peerClosing(c)
  \/ \E c \in DOMAIN conns : onClose(c)
  \/ \E throwing \in SUBSET Registered : onUninit(throwing)

SpecTeardown == Init /\ [][NextTeardown]_vars

\* parsing: responses for one hostname whose Set-Cookie headers carry both
\* expiry attributes or a first segment that is no name=value pair
NextParse ==
  \/ webRequestCall([kind |-> "valid", hostname |-> "d1", pathname |-> PathRoot])
  \/ \E hs \in ParseLists : webRequestResponse("d1", 200, hs)
  \/ \E t \in Instants : Tick(t)

SpecParse == Init /\ [][NextParse]_vars

\* the events of the connections, interleaved with the calls on the sockets
\* and with HTTP requests in flight
NextEvents ==
  \/ \E i \in WsIds : wsConnect("valid", i)
  \/ \E i \in WsIds : wsSend(i, "base64")
  \/ \E i \in WsIds : wsClose(i)
  \/ \E c \in DOMAIN conns : onOpen(c)
  \/ \E c \in DOMAIN conns : onMessage(c)
  \/ \E c \in DOMAIN conns : onError(c)
  \/ \E c \in DOMAIN conns : onClose(c)
  \/ webRequestCall([kind |-> "valid", hostname |-> "d1", pathname |-> PathRoot])
  \/ webRequestResponse("d1", 200, << >>)
  \/ webRequestFailure("d1")

SpecEvents == Init /\ [][NextEvents]_vars

\* failing HTTP calls next to a jar that holds cookies and a registry that
\* holds a connection
NextFailure ==
  \/ wsConnect("valid", "a")
  \/ \E c \in DOMAIN conns : onOpen(c)
  \/ \E c \in DOMAIN conns : onClose(c)
  \/ \E p \in Paths : webRequestCall([kind |-> "valid", hostname |-> "d1", pathname |-> p])
  \/ \E hs \in {<< >>, <<HPlain>>, <<HMaxAge>>} : webRequestResponse("d1", 200, hs)
  \/ webRequestFailure("d1")
  \/ \E t \in Instants : Tick(t)

SpecFailure == Init /\ [][NextFailure]_vars

Next == NextFailure \/ NextWs \/ NextJar \/ NextApi \/ NextTeardown \/ NextParse \/ NextEvents

Spec == Init /\ [][Next]_vars

-----------------------------------------------------------------------------
(* The registry: claims *)

\* the step just taken is this call of the API
IsCall(l, op) == l.op = op

\* the step just taken is the close event of some connection
IsCloseEvent(l) == l.op = "event" /\ l.event = "close"

\* C1: an entry leaves the registry only by wsClose of its id or by the close
\* event of its own connection (or at teardown); the close event of a
\* connection that is no longer registered leaves the registry unchanged.
C1_RemovedOnlyByOwnClose ==
  [][\A i \in WsIds :
       (websockets[i] # NoWs /\ websockets'[i] # websockets[i]) =>
         \/ (IsCall(last', "wsClose") /\ last'.wsId = i)
         \/ (IsCloseEvent(last') /\ last'.conn = websockets[i])
         \/ last'.op = "onUninit"]_vars

\* C2: the connection registered under an id is one created for that id;
\* wsConnect with a valid url succeeds exactly when the id is not registered,
\* a failed call creates no connection and leaves the registry unchanged, a
\* successful one registers a new connection; after a close event the id of
\* that connection is not registered.
C2_OpenIffIdFree ==
  [][/\ \A i \in WsIds :
          websockets'[i] # NoWs =>
            websockets'[i] \in DOMAIN conns' /\ conns'[websockets'[i]].wsId = i
     /\ (IsCall(last', "wsConnect") /\ last'.url = "valid") =>
          LET i == last'.wsId
              free == websockets[i] = NoWs
          IN /\ ~last'.outcome.threw
             /\ last'.outcome.value.success <=> free
             /\ ~free => UNCHANGED <<websockets, conns>>
             /\ free => /\ conns' = Append(conns, newWebSocket(i))
                        /\ websockets' = [websockets EXCEPT ![i] = Len(conns) + 1]
     /\ IsCloseEvent(last') => websockets'[last'.topic] = NoWs]_vars

\* C2 witness: an id is opened again after the close event of its earlier,
\* never explicitly closed, connection
C2_Witness ==
  /\ IsCall(last, "wsConnect")
  /\ last.outcome.value.success
  /\ \E c \in DOMAIN conns :
       /\ conns[c].wsId = last.wsId
       /\ conns[c].readyState = "CLOSED"
       /\ conns[c].closeCalls = 0
       /\ websockets[last.wsId] \notin {NoWs, c}

\* C3: wsSend returns a failure, hands nothing to the transport and leaves the
\* registry unchanged unless the id is registered and its connection is OPEN;
\* it hands a frame to the transport only then; nothing is sent at any other
\* step (a rejected send is not queued).
C3_SendOnlyWhenOpen ==
  [][/\ IsCall(last', "wsSend") =>
          LET ws == websockets[last'.wsId]
              open == ws # NoWs /\ conns[ws].readyState = "OPEN"
          IN /\ ~last'.outcome.threw
             /\ websockets' = websockets
             /\ ~open => ~last'.outcome.value.success /\ conns' = conns
             /\ last'.outcome.value.success =>
                  open /\ conns' = [conns EXCEPT ![ws].sent = @ + 1]
     /\ \A c \in DOMAIN conns :
          conns'[c].sent # conns[c].sent =>
            IsCall(last', "wsSend") /\ last'.outcome.value.success]_vars

\* C3 witness: a send on a registered connection that is still connecting has
\* been rejected
C3_Witness ==
  /\ IsCall(last, "wsSend")
  /\ ~last.outcome.value.success
  /\ last.data = "base64"
  /\ websockets[last.wsId] # NoWs
  /\ conns[websockets[last.wsId]].readyState = "CONNECTING"

\* C4: wsClose always returns success and leaves the id unregistered; on an
\* unregistered id it changes nothing; on a registered id it calls close() on
\* that connection, for the first and only time; no connection ever has
\* close() called on it twice.
C4_CloseIdempotent ==
  [][/\ IsCall(last', "wsClose") =>
          LET i == last'.wsId
              ws == websockets[i]
          IN /\ ~last'.outcome.threw
             /\ last'.outcome.value.success
             /\ websockets'[i] = NoWs
             /\ ws = NoWs => UNCHANGED <<websockets, conns>>
             /\ ws # NoWs =>
                  /\ conns[ws].closeCalls = 0
                  /\ conns' = [conns EXCEPT ![ws] = closeWs(@)]
                  /\ websockets' = [websockets EXCEPT ![i] = NoWs]
     /\ \A c \in DOMAIN conns' : conns'[c].closeCalls <= 1]_vars

\* C4 witness: wsClose has been called on an id whose only connection was
\* closed by an earlier wsClose and has since reported its close
C4_Witness ==
  /\ IsCall(last, "wsClose")
  /\ websockets[last.wsId] = NoWs
  /\ \E c \in DOMAIN conns : conns[c].wsId = last.wsId
  /\ \A c \in DOMAIN conns :
       conns[c].wsId = last.wsId =>
         conns[c].closeCalls = 1 /\ conns[c].readyState = "CLOSED"

-----------------------------------------------------------------------------
(* The cookie jar: claims *)

\* the step just taken dispatched a request: its Cookie header is decided
IsDispatch(l) == l.op = "webRequest" /\ l.phase = "dispatch"

\* the step just taken returned the result of an HTTP call
IsReturn(l) == l.op \in {"webRequest", "part000_webRequest"} /\ l.phase = "return"

\* cookie c is in the sequence
Holds(cookies, c) == \E j \in DOMAIN cookies : cookies[j] = c

\* C5: a request carries a stored cookie only if the cookie's expires is null
\* or an instant strictly later than the time of the request; so a cookie
\* recorded with Max-Age=0 is sent with no request made at or after its
\* recording.
C5_NoExpiredCookieSent ==
  IsDispatch(last) =>
    \A k \in DOMAIN last.validCookies :
      LET c == last.validCookies[k]
      IN c.expires = Null \/ NumLess(<<now>>, DateParse(c.expires))

\* a request to `pathname` made at time t would carry the stored cookie c
WouldSend(c, pathname, t) == Holds(validCookiesOf(<<c>>, pathname, t), c)

\* C6: the cookie recorded at time t from "s=x; Path=/; Max-Age=1" is carried
\* by every request to the hostname at a time before t + 1 s, and by no
\* request at or after t + 2 s.
C6_MaxAgeWindow ==
  (IsReturn(last) /\ last.op = "webRequest" /\ last.outcome.value.success
     /\ last.setCookie # << >> /\ last.setCookie[Len(last.setCookie)] = HMaxAge) =>
    LET stored == cookieJar[last.hostname]
        c == stored[Len(stored)]
    IN /\ c.name = <<"s">> /\ c.value = <<"x">>
       /\ \A t \in Instants, p \in Paths :
            /\ (now <= t /\ t < now + 1 * MsPerSec) => WouldSend(c, p, t)
            /\ t >= now + 2 * MsPerSec => ~WouldSend(c, p, t)

\* the names of a domain's cookies are pairwise distinct
DistinctNames(cookies) ==
  \A j, k \in DOMAIN cookies : cookies[j].name = cookies[k].name => j = k

\* C7: every domain holds at most one cookie per name; after a response, the
\* cookie of each name the response set is the one parsed from the last header
\* of that name, the cookies of the other names are kept, nothing else is
\* stored, and the other domains are unchanged.
C7_OneCookiePerName ==
  [][/\ \A d \in Domains : DistinctNames(cookieJar'[d])
     /\ (IsReturn(last') /\ last'.op = "webRequest" /\ last'.outcome.value.success) =>
          LET d == last'.hostname
              hs == last'.setCookie
              parsed(k) == parseCookieAt(hs[k], now)
              isSet(name) == \E k \in DOMAIN hs : parsed(k).name = name
          IN /\ \A e \in Domains \ {d} : cookieJar'[e] = cookieJar[e]
             /\ \A k \in DOMAIN hs :
                  (\A m \in (k + 1)..Len(hs) : parsed(m).name # parsed(k).name) =>
                    Holds(cookieJar'[d], parsed(k))
             /\ \A j \in DOMAIN cookieJar[d] :
                  ~isSet(cookieJar[d][j].name) => Holds(cookieJar'[d], cookieJar[d][j])
             /\ \A j \in DOMAIN cookieJar'[d] :
                  \/ Holds(cookieJar[d], cookieJar'[d][j]) /\ ~isSet(cookieJar'[d][j].name)
                  \/ \E k \in DOMAIN hs : parsed(k) = cookieJar'[d][j]]_vars

\* C7 witness: a response with two headers of the name s has been recorded
\* for a domain that held cookies of the names s and t from an earlier
\* response: the domain holds t as it was and the s of the second header
C7_Witness ==
  /\ IsReturn(last) /\ last.op = "webRequest" /\ last.outcome.value.success
  /\ last.setCookie = <<HMaxAge, HMaxAgeZero>>
  /\ now > 0
  /\ cookieJar[last.hostname] =
       <<parseCookieAt(HPathNoValue, 0), parseCookieAt(HMaxAgeZero, now)>>

\* C8: a request carries a stored cookie only if the cookie's stored path is a
\* prefix of the request path; the cookies sent are in stored order, and the
\* header is left out exactly when no cookie is sent.
C8_OnlyPrefixPathsSent ==
  IsDispatch(last) =>
    LET stored == cookieJar[last.url.hostname]
        sent == last.validCookies
    IN /\ \A k \in DOMAIN sent : startsWith(last.url.pathname, sent[k].path)
       /\ \A j, k \in DOMAIN sent :
            j < k => \E a, b \in DOMAIN stored :
                       a < b /\ stored[a] = sent[j] /\ stored[b] = sent[k]
       /\ (last.cookieHeader = Undefined) <=> (sent = << >>)

-----------------------------------------------------------------------------
(* The API surface: claims *)

ApiCalls == {"webRequest", "part000_webRequest", "wsConnect", "wsSend", "wsClose"}

\* the step just taken returned the result of a call of the API
IsApiReturn(l) == l.op \in ApiCalls /\ (l.op = "webRequest" => l.phase = "return")

\* C9: every call of the API ends in a returned result with a boolean success
\* flag, never in an error thrown to the caller.
C9_NeverThrows ==
  IsApiReturn(last) =>
    /\ ~last.outcome.threw
    /\ last.outcome.value.success \in BOOLEAN

\* C9 witness: a send on an unknown id has been answered with a failure result
C9_Witness ==
  /\ IsCall(last, "wsSend")
  /\ websockets[last.wsId] = NoWs
  /\ ~last.outcome.threw
  /\ ~last.outcome.value.success

\* C10: an HTTP call with an absent, empty or invalid url returns
\* success:false with status 400, calls no transport and leaves the jar and the
\* requests in flight unchanged.
C10_BadUrlIs400 ==
  [][(IsReturn(last') /\ last'.urlKind # "valid") =>
       /\ ~last'.outcome.value.success
       /\ last'.outcome.value.status = 400
       /\ ~last'.axiosCalled
       /\ cookieJar' = cookieJar
       /\ pending' = pending]_vars

\* the step just taken returned the result of an HTTP call that axios rejected
IsFailureReturn(l) == l.op = "webRequest" /\ l.phase = "return" /\ l.axiosCalled
                        /\ "error" \in DOMAIN l

\* C11: an HTTP call that ends in a transport failure returns success:false
\* with an error message and the status of the error's response if it has one,
\* otherwise 500 (a rejection of axios carries no response here, so the status
\* is 500); the jar and the socket registry are as they were before.
C11_FailureIs500 ==
  [][IsFailureReturn(last') =>
       /\ ~last'.outcome.threw
       /\ ~last'.outcome.value.success
       /\ last'.outcome.value.status =
            (IF last'.error.hasResponse THEN last'.error.status ELSE 500)
       /\ last'.outcome.value.error # ""
       /\ cookieJar' = cookieJar
       /\ websockets' = websockets
       /\ conns' = conns]_vars

\* C11 witness: a call has failed while the jar of its hostname holds a cookie
\* and a connection is registered
C11_Witness ==
  /\ IsFailureReturn(last)
  /\ last.outcome.value.status = 500
  /\ cookieJar[last.hostname] # << >>
  /\ websockets["a"] # NoWs

-----------------------------------------------------------------------------
(* Teardown and the life of an entry: claims *)

\* C12: onUninit calls close() once on every connection registered at that
\* moment and on no other, whichever of the calls raise an error, and leaves
\* the registry empty.
C12_TeardownClosesAll ==
  [][last'.op = "onUninit" =>
       /\ \A c \in DOMAIN conns :
            conns'[c].closeCalls =
              conns[c].closeCalls + (IF c \in Registered THEN 1 ELSE 0)
       /\ \A c \in Registered \ last'.throwing : conns'[c] = closeWs(conns[c])
       /\ \A i \in WsIds : websockets'[i] = NoWs]_vars

\* C12 witness: teardown ran with two connections registered; close() raised
\* on the first, was still called on the second, and the registry is empty
C12_Witness ==
  /\ last.op = "onUninit"
  /\ last.throwing = {1}
  /\ Len(conns) = 2
  /\ conns[1].closeCalls = 1
  /\ conns[2].closeCalls = 1 /\ conns[2].readyState = "CLOSING"
  /\ \A i \in WsIds : websockets[i] = NoWs

IsErrorEvent(l) == l.op = "event" /\ l.transport = "error"

\* C14: an error of the transport emits one error event on the topic of the
\* connection's id and leaves the registry and the connections unchanged; the
\* entry of a connection that has reported an error stays until the close
\* event of that connection or wsClose of its id (or teardown).
C14_ErrorKeepsEntry ==
  [][/\ IsErrorEvent(last') =>
          /\ last'.emits = <<realtime(conns[last'.conn].wsId, "error")>>
          /\ UNCHANGED <<websockets, conns>>
     /\ (IsErrorEvent(last) /\ websockets[last.topic] = last.conn) =>
          \/ websockets'[last.topic] = last.conn
          \/ IsCloseEvent(last') /\ last'.conn = last.conn
          \/ IsCall(last', "wsClose") /\ last'.wsId = last.topic
          \/ last'.op = "onUninit"]_vars

\* C15: every event the transport produces for a connection is emitted in the
\* same step, once, with its own kind, on the topic of the connection's id,
\* and no other step emits anything; so the events emitted for a connection
\* are those its transport produced, in order, whatever HTTP requests, sends
\* and events of other connections come in between.
C15_EventsInTransportOrder ==
  [][/\ last'.op = "event" =>
          /\ last'.conn \in DOMAIN conns
          /\ last'.transport \in {"open", "message", "error", "close"}
          /\ last'.emits = <<realtime(conns[last'.conn].wsId, last'.transport)>>
     /\ last'.op # "event" => "emits" \notin DOMAIN last']_vars

\* C15 witness: a message of one connection has been emitted while an HTTP
\* request is in flight and the connection of the other id, which has sent a
\* frame, is open
C15_Witness ==
  /\ last.op = "event" /\ last.transport = "message"
  /\ last.emits = <<realtime(last.topic, "message")>>
  /\ pending["d1"] > 0
  /\ \E c \in DOMAIN conns :
       /\ conns[c].wsId # last.topic
       /\ conns[c].readyState = "OPEN"
       /\ conns[c].sent > 0

-----------------------------------------------------------------------------
(* Parsing of Set-Cookie headers: claims *)

\* the step just taken recorded the Set-Cookie headers of a response
IsRecording(l) ==
  l.op = "webRequest" /\ l.phase = "return" /\ l.axiosCalled /\ "setCookie" \in DOMAIN l

\* C16: the cookie stored from a header that carries both Max-Age=1 and an
\* Expires date expires at the time of recording plus one second, whichever
\* attribute comes first.
C16_MaxAgeOverridesExpires ==
  (IsRecording(last) /\ last.setCookie # << >>
     /\ last.setCookie[Len(last.setCookie)] \in {HMaxAgeThenExpires, HExpiresThenMaxAge}) =>
    LET stored == cookieJar[last.hostname]
        c == stored[Len(stored)]
    IN /\ c.name = <<"s">>
       /\ c.expires = toUTCString(now + 1 * MsPerSec)

\* the first segment of the header splits into a name and a value, and the
\* name is not empty
HasNameValue(cookieStr) ==
  LET nv == split(Head(split(cookieStr, ";")), "=")
  IN Len(nv) >= 2 /\ trim(nv[1]) # EmptyStr

\* C17: no stored cookie has an empty name; a response is recorded as if the
\* headers whose first segment is no name=value pair were not there, and the
\* call returns its normal result.
C17_MalformedHeaderSkipped ==
  [][/\ \A d \in Domains : \A j \in DOMAIN cookieJar'[d] : cookieJar'[d][j].name # EmptyStr
     /\ IsRecording(last') =>
          /\ last'.outcome.value.success
          /\ cookieJar' = recordSetCookie(cookieJar, last'.hostname,
                                          SelectSeq(last'.setCookie, HasNameValue), now)]_vars

-----------------------------------------------------------------------------
(* Connections of one id over time: claims *)

\* connection c was created by a successful wsConnect (every connection is),
\* close() was never called on it and its transport has not reported closure
Live(c) == conns[c].closeCalls = 0 /\ conns[c].readyState # "CLOSED"

\* C18: every live connection is the one registered under its id.
C18_LiveIsRegistered ==
  \A c \in DOMAIN conns : Live(c) => websockets[conns[c].wsId] = c

\* C19: an event emitted on the topic of an id comes from the connection the
\* latest successful wsConnect of that id created: no event of an earlier
\* connection of the id is emitted once a later one exists.
C19_NoEventOfEarlierConnection ==
  last.op = "event" =>
    \A c \in DOMAIN conns : conns[c].wsId = last.topic => c <= last.conn

-----------------------------------------------------------------------------
(* Requests in flight at once: claims *)

\* C20: when the response of a call that was in flight together with another
\* call to the same hostname is recorded, the cookies the hostname holds under
\* names this response does not set are kept, each name it sets gets the
\* cookie of its last header of that name, and when the step before recorded
\* the other response, the names only that one set keep its cookies.
C20_NoLostCookieUpdate ==
  [][(IsRecording(last') /\ last'.overlapped) =>
       LET d == last'.hostname
           hs == last'.setCookie
           parsed(k) == parseCookieAt(hs[k], now)
           isSet(name) == \E k \in DOMAIN hs : parsed(k).name = name
       IN /\ \A j \in DOMAIN cookieJar[d] :
               ~isSet(cookieJar[d][j].name) => Holds(cookieJar'[d], cookieJar[d][j])
          /\ \A k \in DOMAIN hs :
               (\A m \in (k + 1)..Len(hs) : parsed(m).name # parsed(k).name) =>
                 Holds(cookieJar'[d], parsed(k))
          /\ (IsRecording(last) /\ last.hostname = d) =>
               LET before == last.setCookie
                   earlier(k) == parseCookieAt(before[k], now)
               IN \A k \in DOMAIN before :
                    (/\ ~isSet(earlier(k).name)
                     /\ \A m \in (k + 1)..Len(before) : earlier(m).name # earlier(k).name) =>
                      Holds(cookieJar'[d], earlier(k))]_vars

\* C20 witness: two calls to a hostname without cookies were in flight at
\* once; the response that set t was recorded, then the one that set s, and
\* the hostname holds both
C20_Witness ==
  /\ IsRecording(last) /\ last.overlapped
  /\ requestCounter = 2
  /\ pending[last.hostname] = 0
  /\ last.setCookie = <<HMaxAge>>
  /\ cookieJar[last.hostname] = <<parseCookieAt(HPathNoValue, now), parseCookieAt(HMaxAge, now)>>

====
